---- MODULE Spec2Model ----
(***************************************************************************)
(* A model of fireflower/targets.py:                                       *)
(*   - DBTaskOutputTarget: rows of the task_outputs table, written through *)
(*     the _session() context manager;                                     *)
(*   - FireflowerS3Target: local/remote path resolution and open();        *)
(*   - S3CSVTarget / S3TypedCSVTarget: CSV writing and reading with        *)
(*     optional gzip framing, and the lifetime of the handles they open.   *)
(***************************************************************************)
EXTENDS Integers, Sequences, FiniteSets, TLC

\* ------------------------------------------------------------------------
\* Bounds of the model
\* ------------------------------------------------------------------------

\* Largest number of rows the task_outputs table is let grow to.
MaxRows == 3

\* ------------------------------------------------------------------------
\* State
\* ------------------------------------------------------------------------

\* DBTaskOutputTarget and the task_outputs table
VARIABLES
    table,      \* the committed rows of task_outputs, in insertion order
    keyed,      \* whether the storage layer enforces the key on task_id
    dbLast,     \* the last call made on a DBTaskOutputTarget
    dbPrev      \* the call before it: its op, task_id, value and pre

dbVars == <<table, keyed, dbLast, dbPrev>>

\* FireflowerS3Target and the stores it addresses
VARIABLES
    env,          \* the current value of LOCAL_S3_PATH
    s3Target,          \* the target constructed last
    localFiles,   \* the paths of the files of the local file system
    remoteKeys,   \* the URIs of the objects of the remote store
    s3Last        \* the last exists() or open() call

s3Vars == <<env, s3Target, localFiles, remoteKeys, s3Last>>

\* An S3CSVTarget / S3TypedCSVTarget and the object it writes and reads
VARIABLES
    csvTarget,    \* the target: [compressed, types], fixed at construction
    csvInput,     \* the table the caller holds and writes
    stored,       \* the object at the target's path: [present, bytes]
    csvWritten,   \* the last write: [op, df]
    csvRead       \* the last read since that write: [op, raised, df]

csvVars == <<csvTarget, csvInput, stored, csvWritten, csvRead>>

\* The handles of a running CSV method
VARIABLES
    ioOp,          \* the method running, or "idle"
    ioCompressed,  \* the target's compressed flag
    ioPc,          \* where the method is
    fState,        \* the handle self.open() returned: none, open, closed
    gState,        \* the gzip wrapper around it: none, open, closed
    trailer,       \* the gzip trailer: none, written, lost
    closing,       \* the handles the with blocks being left still close
    closeLog,      \* the handles closed so far, in order
    ioExit,        \* how the method ends: none, return, raise, generator_exit
    chunks         \* chunks the stream has yet to yield

ioVars == <<ioOp, ioCompressed, ioPc, fState, gState, trailer, closing,
            closeLog, ioExit, chunks>>

vars == <<dbVars, s3Vars, csvVars, ioVars>>

\* Each component is specified with the others at rest.
DBOnly == UNCHANGED <<s3Vars, csvVars, ioVars>>
S3Only == UNCHANGED <<dbVars, csvVars, ioVars>>
CSVOnly == UNCHANGED <<dbVars, s3Vars, ioVars>>
IOOnly == UNCHANGED <<dbVars, s3Vars, csvVars>>

\* ------------------------------------------------------------------------
\* DBTaskOutputTarget
\* ------------------------------------------------------------------------

TaskIds == {"t1", "t2"}

\* Values a task stores; "None" is Python's None (what touch() writes).
Values == {"None", "v1", "v2"}

\* DBTaskOutputTarget.create(task): one target per task.
CreateTarget(t) ==
    [task_id |-> t, task_family |-> "Family", params |-> "params"]

\* TaskOutput(task_id=..., value=..., task_family=..., params=...)
TaskOutput(self, v) ==
    [task_id |-> self.task_id, value |-> v,
     task_family |-> self.task_family, params |-> self.params]

\* _get_query: the rows whose task_id is the target's.
GetQuery(self, tbl) ==
    SelectSeq(tbl, LAMBDA r : r.task_id = self.task_id)

\* (mutant) first(): the first row when there are several.
OneFirst(rows) ==
    IF Len(rows) = 0 THEN [raised |-> "NoResultFound", value |-> "NoResult"]
    ELSE [raised |-> "none", value |-> rows[1].value]

\* Query.one(): exactly one row, or an exception.
One(rows) ==
    IF Len(rows) = 0 THEN [raised |-> "NoResultFound", value |-> "NoResult"]
    ELSE IF Len(rows) > 1
         THEN [raised |-> "MultipleResultsFound", value |-> "NoResult"]
         ELSE [raised |-> "none", value |-> rows[1].value]

\* Query.one_or_none(): "absent", "present", or an exception on several rows.
OneOrNone(rows) ==
    IF Len(rows) = 0 THEN [raised |-> "none", found |-> FALSE]
    ELSE IF Len(rows) > 1
         THEN [raised |-> "MultipleResultsFound", found |-> FALSE]
         ELSE [raised |-> "none", found |-> TRUE]

\* (mutant) a store with no key on task_id.
DuplicateKeyNone(tbl) == FALSE

\* The storage layer's key on task_id: a flush that would leave two rows
\* with one task_id fails (only when the store enforces the key).
DuplicateKey(tbl) ==
    /\ keyed
    /\ \E i, j \in DOMAIN tbl : i # j /\ tbl[i].task_id = tbl[j].task_id

\* The body of each method, run inside `with self._session()`: the exception
\* it raises (or "none"), the rows the session holds when the body ends, and
\* the value the method returns.
WriteBody(self, v, tbl) ==
    [raised |-> "none", pending |-> Append(tbl, TaskOutput(self, v)),
     result |-> "NoResult"]

ReadBody(self, tbl) ==
    LET q == One(GetQuery(self, tbl))
    IN  [raised |-> q.raised, pending |-> tbl, result |-> q.value]

ExistsBody(self, tbl) ==
    [raised |-> "none", pending |-> tbl,
     result |-> IF Len(GetQuery(self, tbl)) > 0 THEN "True" ELSE "False"]

RemoveBody(self, tbl) ==
    [raised |-> "none",
     pending |-> SelectSeq(tbl, LAMBDA r : r.task_id # self.task_id),
     result |-> "NoResult"]

\* (mutant) an upsert that inserts without looking for the row.
UpsertBodyInsert(self, v, tbl) ==
    [raised |-> "none", pending |-> Append(tbl, TaskOutput(self, v)),
     result |-> "NoResult"]

UpsertBody(self, v, tbl) ==
    LET q == OneOrNone(GetQuery(self, tbl))
    IN  IF q.raised # "none"
        THEN [raised |-> q.raised, pending |-> tbl, result |-> "NoResult"]
        ELSE IF ~q.found
        THEN [raised |-> "none", pending |-> Append(tbl, TaskOutput(self, v)),
              result |-> "NoResult"]
        ELSE [raised |-> "none",
              pending |-> [i \in DOMAIN tbl |->
                             IF tbl[i].task_id = self.task_id
                             THEN [tbl[i] EXCEPT !.value = v]
                             ELSE tbl[i]],
              result |-> "NoResult"]

\* _session(): the body's exception is caught, rolled back and re-raised;
\* otherwise commit() is called in the else clause, outside the try, so an
\* exception raised by commit() itself (the flush of a pending INSERT that
\* breaks the key) reaches the caller with no rollback() call.
Session(body, tbl) ==
    IF body.raised # "none"
    THEN [table |-> tbl, raised |-> body.raised, rollback |-> TRUE,
          commit |-> "none", result |-> "NoResult"]
    ELSE IF DuplicateKey(body.pending)
    THEN [table |-> tbl, raised |-> "IntegrityError", rollback |-> FALSE,
          commit |-> "raised", result |-> "NoResult"]
    ELSE [table |-> body.pending, raised |-> "none", rollback |-> FALSE,
          commit |-> "ok", result |-> body.result]

RowCount(t, tbl) == Len(SelectSeq(tbl, LAMBDA r : r.task_id = t))

\* One call on a target: the session's outcome becomes the table and the
\* record of the call.
Call(op, t, v, body) ==
    LET s == Session(body, table)
    IN  /\ table' = s.table
        /\ dbPrev' = [op |-> dbLast.op, task_id |-> dbLast.task_id,
                      value |-> dbLast.value, pre |-> dbLast.pre]
        /\ dbLast' = [op |-> op, task_id |-> t, value |-> v,
                      pre |-> RowCount(t, table), raised |-> s.raised,
                      rollback |-> s.rollback, commit |-> s.commit,
                      result |-> s.result]
        /\ UNCHANGED keyed
        /\ DBOnly

Write(t, v) ==
    /\ Len(table) < MaxRows
    /\ Call("write", t, v, WriteBody(CreateTarget(t), v, table))

\* touch() is write(None)
Touch(t) ==
    /\ Len(table) < MaxRows
    /\ Call("touch", t, "None", WriteBody(CreateTarget(t), "None", table))

Read(t) ==
    /\ t \in TaskIds
    /\ Call("read", t, "None", ReadBody(CreateTarget(t), table))

Exists(t) ==
    /\ t \in TaskIds
    /\ Call("exists", t, "None", ExistsBody(CreateTarget(t), table))

Remove(t) ==
    /\ t \in TaskIds
    /\ Call("remove", t, "None", RemoveBody(CreateTarget(t), table))

Upsert(t, v) ==
    /\ RowCount(t, table) = 0 => Len(table) < MaxRows
    /\ Call("upsert", t, v, UpsertBody(CreateTarget(t), v, table))

NoCall ==
    [op |-> "init", task_id |-> "t1", value |-> "None", pre |-> 0,
     raised |-> "none", rollback |-> FALSE, commit |-> "none",
     result |-> "NoResult"]

\* ------------------------------------------------------------------------
\* FireflowerS3Target: path resolution, exists() and open()
\* ------------------------------------------------------------------------

\* Strings are sequences of one-character strings.
S3Prefix == <<"s", "3", ":", "/", "/">>

\* The URIs targets are declared with: scheme://bucket/key.
Uri(scheme, bucket, key) == scheme \o <<":", "/", "/">> \o bucket \o <<"/">> \o key

Schemes == {<<"s", "3">>, <<"s", "3", "n">>}
Buckets == {<<"b">>, <<"c">>}
Keys == {<<"k">>}
Uris == {Uri(sc, b, k) : sc \in Schemes, b \in Buckets, k \in Keys}

\* Values of the environment variable LOCAL_S3_PATH: unset, or set to a
\* string (possibly the empty one).
Unset == [set |-> FALSE, val |-> <<>>]
EnvValues ==
    {Unset} \cup {[set |-> TRUE, val |-> r] : r \in {<<>>, <<"/", "r">>, <<"/", "r", "/">>}}

\* Modes open() is called with.
Modes == {"r", "w", "a", "rb"}

\* str.replace(old, ''): every occurrence of old removed, left to right.
RECURSIVE RemoveAll(_, _)
RemoveAll(str, old) ==
    IF Len(str) < Len(old) THEN str
    ELSE IF SubSeq(str, 1, Len(old)) = old
         THEN RemoveAll(SubSeq(str, Len(old) + 1, Len(str)), old)
         ELSE <<Head(str)>> \o RemoveAll(Tail(str), old)

\* os.path.join(a, b)
PathJoin(a, b) ==
    IF b # <<>> /\ b[1] = "/" THEN b
    ELSE IF a = <<>> \/ a[Len(a)] = "/" THEN a \o b
    ELSE a \o <<"/">> \o b

\* `if self.local_s3_path`: None and the empty string are both false.
Truthy(opt) == opt.set /\ opt.val # <<>>

\* (mutant) local_path that joins the URI as declared, scheme and all.
LocalPathKeepScheme(self) == PathJoin(self.local_s3_path.val, self.path)

\* FireflowerS3Target.local_path
LocalPath(self) ==
    PathJoin(self.local_s3_path.val, RemoveAll(self.path, S3Prefix))

\* getattr(self, 'compressed', False)
IsCompressed(self) == self.compressed = "True"

\* What a call did: the exception raised (or "none"), whether and where the
\* local file system was used, whether the remote client was invoked, the
\* files left, and what was returned.
Outcome(raised, localUsed, localPath, remoteUsed, files, result) ==
    [raised |-> raised, localUsed |-> localUsed, localPath |-> localPath,
     remoteUsed |-> remoteUsed, files |-> files, result |-> result]

\* FireflowerS3Target.exists
ExistsOutcome(t, files, keys) ==
    IF Truthy(t.local_s3_path)
    THEN Outcome("none", TRUE, LocalPath(t), FALSE, files,
                 IF LocalPath(t) \in files THEN "True" ELSE "False")
    ELSE Outcome("none", FALSE, <<>>, TRUE, files,
                 IF t.path \in keys THEN "True" ELSE "False")

\* super().open(mode): the remote client's open.
RemoteOpen(t, mode, files, keys) ==
    IF mode = "r" /\ t.path \notin keys
    THEN Outcome("FileNotFoundException", FALSE, <<>>, TRUE, files, "NoResult")
    ELSE Outcome("none", FALSE, <<>>, TRUE, files, "RemoteFile")

\* FileIO(path, mode) wrapped as open() wraps it.
LocalOpen(t, mode, files) ==
    IF mode = "w"
    THEN Outcome("none", TRUE, LocalPath(t), FALSE, files \cup {LocalPath(t)},
                 IF IsCompressed(t) THEN "BufferedWriter"
                 ELSE "TextIOWrapper(BufferedWriter)")
    ELSE IF LocalPath(t) \notin files
    THEN Outcome("FileNotFoundError", TRUE, LocalPath(t), FALSE, files, "NoResult")
    ELSE Outcome("none", TRUE, LocalPath(t), FALSE, files,
                 IF IsCompressed(t) THEN "BufferedReader"
                 ELSE "TextIOWrapper(BufferedReader)")

\* (mutant) open() that checks the mode only on the local path.
OpenOutcomeLateCheck(t, mode, files, keys) ==
    IF ~Truthy(t.local_s3_path) THEN RemoteOpen(t, mode, files, keys)
    ELSE IF mode \notin {"r", "w"}
    THEN Outcome("ValueError", FALSE, <<>>, FALSE, files, "NoResult")
    ELSE LocalOpen(t, mode, files)

\* FireflowerS3Target.open
OpenOutcome(t, mode, files, keys) ==
    IF mode \notin {"r", "w"}
    THEN Outcome("ValueError", FALSE, <<>>, FALSE, files, "NoResult")
    ELSE IF ~Truthy(t.local_s3_path) THEN RemoteOpen(t, mode, files, keys)
    ELSE LocalOpen(t, mode, files)

\* The environment variable is set or unset between calls.
SetEnv(v) ==
    /\ v # env
    /\ env' = v
    /\ UNCHANGED <<s3Target, localFiles, remoteKeys, s3Last>>
    /\ S3Only

\* FireflowerS3Target.__init__: LOCAL_S3_PATH is read once, here.
Construct(uri, compressed) ==
    /\ s3Target' = [path |-> uri, local_s3_path |-> env, compressed |-> compressed]
    /\ s3Last' = [op |-> "init", mode |-> "r", out |-> Outcome("none", FALSE, <<>>, FALSE, localFiles, "NoResult")]
    /\ UNCHANGED <<env, localFiles, remoteKeys>>
    /\ S3Only

S3Exists ==
    LET out == ExistsOutcome(s3Target, localFiles, remoteKeys)
    IN  /\ s3Last' = [op |-> "exists", mode |-> "r", out |-> out]
        /\ localFiles' = out.files
        /\ UNCHANGED <<env, s3Target, remoteKeys>>
        /\ S3Only

S3Open(mode) ==
    LET out == OpenOutcome(s3Target, mode, localFiles, remoteKeys)
    IN  /\ s3Last' = [op |-> "open", mode |-> mode, out |-> out]
        /\ localFiles' = out.files
        /\ UNCHANGED <<env, s3Target, remoteKeys>>
        /\ S3Only

StartS3 ==
    /\ env \in EnvValues
    /\ s3Target = [path |-> Uri(<<"s", "3">>, <<"b">>, <<"k">>), local_s3_path |-> env,
              compressed |-> "unset"]
    /\ localFiles = {}
    /\ remoteKeys \in SUBSET {Uri(sc, <<"b">>, <<"k">>) : sc \in Schemes}
    /\ s3Last = [op |-> "init", mode |-> "r",
                 out |-> Outcome("none", FALSE, <<>>, FALSE, {}, "NoResult")]

NextS3 ==
    \/ \E v \in EnvValues : SetEnv(v)
    \/ \E uri \in Uris, c \in {"unset", "True", "False"} : Construct(uri, c)
    \/ S3Exists
    \/ \E mode \in Modes : S3Open(mode)

\* ------------------------------------------------------------------------
\* S3CSVTarget / S3TypedCSVTarget: what is written and what is read back
\* ------------------------------------------------------------------------

\* Largest number of rows of a table given to a write.
MaxDfRows == 2

\* A table is a sequence of columns [name, col], in column order.
ColNames == {<<"a">>, <<"b">>}
Cells == {0, 12}

Columns(n) == {[name |-> c, col |-> v] : c \in ColNames, v \in [1..n -> Cells]}

Frames ==
    UNION {
        {<<c>> : c \in Columns(n)} \cup
        {<<c, d>> : c \in {x \in Columns(n) : x.name = <<"a">>},
                    d \in {x \in Columns(n) : x.name = <<"b">>}} \cup
        {<<d, c>> : c \in {x \in Columns(n) : x.name = <<"a">>},
                    d \in {x \in Columns(n) : x.name = <<"b">>}}
        : n \in 1..MaxDfRows}

\* Type descriptors, each with input(output(x)) = x: "shift" stores x + 1,
\* "neg" stores -x.
Descriptors == {"shift", "neg"}
DescOutput(d, x) == IF d = "shift" THEN x + 1 ELSE 0 - x
DescInput(d, x) == IF d = "shift" THEN x - 1 ELSE 0 - x

\* The `types` of a target: descriptors for some of the columns.
TypeMaps == UNION {[D -> Descriptors] : D \in SUBSET ColNames}

\* -- text of numbers --
DigitChars == <<"0", "1", "2", "3", "4", "5", "6", "7", "8", "9">>

RECURSIVE NatToStr(_)
NatToStr(n) ==
    IF n < 10 THEN <<DigitChars[n + 1]>>
    ELSE NatToStr(n \div 10) \o <<DigitChars[(n % 10) + 1]>>

IntToStr(n) == IF n < 0 THEN <<"-">> \o NatToStr(0 - n) ELSE NatToStr(n)

IsDigit(c) == \E d \in DOMAIN DigitChars : DigitChars[d] = c
DigitVal(c) == (CHOOSE d \in DOMAIN DigitChars : DigitChars[d] = c) - 1

IsIntStr(str) ==
    LET body == IF str # <<>> /\ str[1] = "-" THEN Tail(str) ELSE str
    IN  body # <<>> /\ \A i \in DOMAIN body : IsDigit(body[i])

RECURSIVE StrToNat(_)
StrToNat(str) ==
    IF str = <<>> THEN 0
    ELSE 10 * StrToNat(SubSeq(str, 1, Len(str) - 1)) + DigitVal(str[Len(str)])

StrToInt(str) == IF str[1] = "-" THEN 0 - StrToNat(Tail(str)) ELSE StrToNat(str)

\* -- CSV text --
RECURSIVE JoinFields(_, _)
JoinFields(fields, sep) ==
    IF fields = <<>> THEN <<>>
    ELSE IF Len(fields) = 1 THEN fields[1]
    ELSE fields[1] \o <<sep>> \o JoinFields(Tail(fields), sep)

RECURSIVE Split(_, _)
Split(str, sep) ==
    IF str = <<>> THEN << <<>> >>
    ELSE LET rest == Split(Tail(str), sep)
         IN  IF Head(str) = sep THEN << <<>> >> \o rest
             ELSE << <<Head(str)>> \o rest[1] >> \o Tail(rest)

RECURSIVE Flatten(_)
Flatten(lines) == IF lines = <<>> THEN <<>> ELSE Head(lines) \o Flatten(Tail(lines))

NRows(df) == Len(df[1].col)

\* DataFrame.to_csv(handle, index=False): the header line, then one line
\* per row.
ToCsv(df) ==
    LET header == JoinFields([j \in DOMAIN df |-> df[j].name], ",") \o <<"\n">>
        line(i) == JoinFields([j \in DOMAIN df |-> IntToStr(df[j].col[i])], ",")
                     \o <<"\n">>
    IN  header \o Flatten([i \in 1..NRows(df) |-> line(i)])

\* pd.read_csv(handle): the first line names the columns, the others hold
\* the rows, parsed as integers; a ragged or non-numeric text is an error.
ParseCsv(text) ==
    LET all == Split(text, "\n")
        lines == SubSeq(all, 1, Len(all) - 1)
        cells == [i \in DOMAIN lines |-> Split(lines[i], ",")]
        wellFormed ==
            /\ Len(lines) >= 2
            /\ all[Len(all)] = <<>>
            /\ \A i \in DOMAIN cells : Len(cells[i]) = Len(cells[1])
            /\ \A j \in DOMAIN cells[1] : cells[1][j] # <<>>
            /\ \A i \in 2..Len(cells) : \A j \in DOMAIN cells[i] : IsIntStr(cells[i][j])
    IN  IF ~wellFormed THEN [raised |-> "ParserError", df |-> <<>>]
        ELSE [raised |-> "none",
              df |-> [j \in DOMAIN cells[1] |->
                        [name |-> cells[1][j],
                         col |-> [i \in 1..(Len(cells) - 1) |->
                                    StrToInt(cells[i + 1][j])]]]]

\* -- bytes --
CharCodes ==
    << <<"\n", 10>>, <<",", 44>>, <<"-", 45>>, <<"0", 48>>, <<"1", 49>>,
       <<"2", 50>>, <<"3", 51>>, <<"4", 52>>, <<"5", 53>>, <<"6", 54>>,
       <<"7", 55>>, <<"8", 56>>, <<"9", 57>>, <<"a", 97>>, <<"b", 98>> >>

Ord(c) == CharCodes[CHOOSE i \in DOMAIN CharCodes : CharCodes[i][1] = c][2]
Chr(b) ==
    IF \E i \in DOMAIN CharCodes : CharCodes[i][2] = b
    THEN CharCodes[CHOOSE i \in DOMAIN CharCodes : CharCodes[i][2] = b][1]
    ELSE "?"

\* TextIOWrapper: text to bytes on write, bytes to text on read.
Encode(text) == [i \in DOMAIN text |-> Ord(text[i])]
Decode(bytes) == [i \in DOMAIN bytes |-> Chr(bytes[i])]

\* -- gzip framing: magic, run-length coded payload, trailer (check sum and
\* length of the payload), the trailer written when the writer is closed --
GzipMagic == <<31, 139>>

RECURSIVE RunLength(_, _)
RunLength(bytes, b) ==
    IF bytes = <<>> \/ Head(bytes) # b THEN 0 ELSE 1 + RunLength(Tail(bytes), b)

RECURSIVE Deflate(_)
Deflate(bytes) ==
    IF bytes = <<>> THEN <<>>
    ELSE LET n == RunLength(bytes, Head(bytes))
         IN  <<n, Head(bytes)>> \o Deflate(SubSeq(bytes, n + 1, Len(bytes)))

RECURSIVE Inflate(_)
Inflate(bytes) ==
    IF Len(bytes) < 2 THEN <<>>
    ELSE [i \in 1..bytes[1] |-> bytes[2]] \o Inflate(SubSeq(bytes, 3, Len(bytes)))

RECURSIVE CheckSum(_)
CheckSum(bytes) ==
    IF bytes = <<>> THEN 0 ELSE (Head(bytes) + CheckSum(Tail(bytes))) % 256

GzipWrite(bytes) ==
    GzipMagic \o Deflate(bytes) \o <<CheckSum(bytes), Len(bytes) % 256>>

GzipRead(bytes) ==
    IF Len(bytes) < 4 \/ SubSeq(bytes, 1, 2) # GzipMagic
    THEN [raised |-> "OSError", bytes |-> <<>>]
    ELSE LET data == Inflate(SubSeq(bytes, 3, Len(bytes) - 2))
         IN  IF <<CheckSum(data), Len(data) % 256>>
                  # SubSeq(bytes, Len(bytes) - 1, Len(bytes))
             THEN [raised |-> "OSError", bytes |-> <<>>]
             ELSE [raised |-> "none", bytes |-> data]

\* -- the targets' methods --

\* from_items((colname, types[colname].output(col) if colname in types
\* else col) ...)
ApplyOutput(df, types) ==
    [j \in DOMAIN df |->
        IF df[j].name \in DOMAIN types
        THEN [name |-> df[j].name,
              col |-> [i \in DOMAIN df[j].col |->
                         DescOutput(types[df[j].name], df[j].col[i])]]
        ELSE df[j]]

\* from_items((colname, types[colname].input(col) if colname in types
\* else col) ...)
ApplyInput(df, types) ==
    [j \in DOMAIN df |->
        IF df[j].name \in DOMAIN types
        THEN [name |-> df[j].name,
              col |-> [i \in DOMAIN df[j].col |->
                         DescInput(types[df[j].name], df[j].col[i])]]
        ELSE df[j]]

\* S3CSVTarget.write_csv: the bytes that reach the underlying handle.
WriteCsvBytes(df, compressed) ==
    IF compressed THEN GzipWrite(Encode(ToCsv(df))) ELSE Encode(ToCsv(df))

\* The text a read gets from the underlying handle.
ReadText(bytes, compressed) ==
    IF compressed
    THEN LET z == GzipRead(bytes)
         IN  [raised |-> z.raised, text |-> Decode(z.bytes)]
    ELSE [raised |-> "none", text |-> Decode(bytes)]

\* (mutant) a read that never unwraps the gzip framing.
ReadCsvResultPlain(bytes, compressed) == ParseCsv(Decode(bytes))

\* S3CSVTarget.read_csv
ReadCsvResult(bytes, compressed) ==
    LET t == ReadText(bytes, compressed)
    IN  IF t.raised # "none" THEN [raised |-> t.raised, df |-> <<>>]
        ELSE ParseCsv(t.text)

\* S3TypedCSVTarget.write_typed_csv: the compressed branch writes the
\* transformed table, the other branch writes df itself.
WriteTypedCsvBytes(df, types, compressed) ==
    IF compressed
    THEN GzipWrite(Encode(ToCsv(ApplyOutput(df, types))))
    ELSE Encode(ToCsv(df))

\* S3TypedCSVTarget.read_typed_csv (the cells of the model are integers, the
\* serialization_dtype of every descriptor)
ReadTypedCsvResult(bytes, types, compressed) ==
    LET r == ReadCsvResult(bytes, compressed)
    IN  IF r.raised # "none" THEN r
        ELSE [raised |-> "none", df |-> ApplyInput(r.df, types)]

NoRead == [op |-> "none", raised |-> "none", df |-> <<>>]

WriteCsv ==
    /\ stored' = [present |-> TRUE,
                  bytes |-> WriteCsvBytes(csvInput, csvTarget.compressed)]
    /\ csvWritten' = [op |-> "write_csv", df |-> csvInput]
    /\ csvRead' = NoRead
    /\ UNCHANGED <<csvTarget, csvInput>>
    /\ CSVOnly

WriteTypedCsv ==
    /\ stored' = [present |-> TRUE,
                  bytes |-> WriteTypedCsvBytes(csvInput, csvTarget.types,
                                               csvTarget.compressed)]
    /\ csvWritten' = [op |-> "write_typed_csv", df |-> csvInput]
    /\ csvRead' = NoRead
    /\ UNCHANGED <<csvTarget, csvInput>>
    /\ CSVOnly

ReadCsv ==
    /\ csvRead' =
         IF ~stored.present
         THEN [op |-> "read_csv", raised |-> "FileNotFoundError", df |-> <<>>]
         ELSE LET r == ReadCsvResult(stored.bytes, csvTarget.compressed)
              IN  [op |-> "read_csv", raised |-> r.raised, df |-> r.df]
    /\ UNCHANGED <<csvTarget, csvInput, stored, csvWritten>>
    /\ CSVOnly

ReadTypedCsv ==
    /\ csvRead' =
         IF ~stored.present
         THEN [op |-> "read_typed_csv", raised |-> "FileNotFoundError", df |-> <<>>]
         ELSE LET r == ReadTypedCsvResult(stored.bytes, csvTarget.types,
                                          csvTarget.compressed)
              IN  [op |-> "read_typed_csv", raised |-> r.raised, df |-> r.df]
    /\ UNCHANGED <<csvTarget, csvInput, stored, csvWritten>>
    /\ CSVOnly

\* A target is constructed and the caller holds a table.
StartCSV ==
    /\ csvTarget \in [compressed : BOOLEAN, types : TypeMaps]
    /\ csvInput \in Frames
    /\ stored = [present |-> FALSE, bytes |-> <<>>]
    /\ csvWritten = [op |-> "none", df |-> <<>>]
    /\ csvRead = NoRead

NextCSV ==
    \/ WriteCsv
    \/ WriteTypedCsv
    \/ ReadCsv
    \/ ReadTypedCsv

\* ------------------------------------------------------------------------
\* The handles a CSV method opens, step by step
\* ------------------------------------------------------------------------

\* Largest number of chunks a streamed file holds.
MaxChunks == 2

WriteOps == {"write_csv_tuples", "write_csv", "write_typed_csv"}
ReadOps == {"read_csv", "read_typed_csv"}
StreamOps == {"read_csv_stream"}

\* (mutant) the outer with block left before the inner one.
ExitScopesOuterFirst(compressed, exit) ==
    IF compressed THEN <<"f", "g">> ELSE <<"f">>

\* (mutant) handles closed only when the body runs to its end.
ExitScopesOnReturn(compressed, exit) ==
    IF exit # "return" THEN <<>>
    ELSE IF compressed THEN <<"g", "f">> ELSE <<"f">>

\* Leaving `with self.open(..) as f: [with TextIOWrapper(GzipFile(fileobj=f))
\* as g:] ...`: whatever ends the body, the inner block closes g, then the
\* outer block closes f.
ExitScopes(compressed, exit) ==
    IF compressed THEN <<"g", "f">> ELSE <<"f">>

\* A method is called. A generator function runs nothing until the first
\* next().
IOCall(op, compressed, n) ==
    /\ IOOnly
    /\ ioPc \in {"idle", "done"}
    /\ op \in StreamOps \/ n = 0
    /\ ioOp' = op
    /\ ioCompressed' = compressed
    /\ ioPc' = IF op \in StreamOps THEN "created" ELSE "open_f"
    /\ fState' = "none"
    /\ gState' = "none"
    /\ trailer' = "none"
    /\ closing' = <<>>
    /\ closeLog' = <<>>
    /\ ioExit' = "none"
    /\ chunks' = n

\* The consumer asks for the first chunk.
GenStart ==
    /\ IOOnly
    /\ ioPc = "created"
    /\ ioPc' = "open_f"
    /\ UNCHANGED <<ioOp, ioCompressed, fState, gState, trailer, closing,
                   closeLog, ioExit, chunks>>

\* The consumer drops the generator without ever asking for a chunk.
GenDropUnstarted ==
    /\ IOOnly
    /\ ioPc = "created"
    /\ ioPc' = "done"
    /\ ioExit' = "generator_exit"
    /\ UNCHANGED <<ioOp, ioCompressed, fState, gState, trailer, closing,
                   closeLog, chunks>>

\* self.open(mode): returns the handle, or raises before any with block is
\* entered.
OpenF(ok) ==
    /\ IOOnly
    /\ ioPc = "open_f"
    /\ IF ok
       THEN /\ fState' = "open"
            /\ ioPc' = IF ioCompressed THEN "wrap_g" ELSE "work"
            /\ UNCHANGED ioExit
       ELSE /\ ioPc' = "done"
            /\ ioExit' = "raise"
            /\ UNCHANGED fState
    /\ UNCHANGED <<ioOp, ioCompressed, gState, trailer, closing, closeLog, chunks>>

\* TextIOWrapper(GzipFile(fileobj=f, mode=...)): the wrapper, or an
\* exception raised inside the outer with block alone.
WrapG(ok) ==
    /\ IOOnly
    /\ ioPc = "wrap_g"
    /\ IF ok
       THEN /\ gState' = "open"
            /\ ioPc' = "work"
            /\ UNCHANGED <<ioExit, closing>>
       ELSE /\ ioExit' = "raise"
            /\ closing' = ExitScopes(FALSE, "raise")
            /\ ioPc' = "unwind"
            /\ UNCHANGED gState
    /\ UNCHANGED <<ioOp, ioCompressed, fState, trailer, closeLog, chunks>>

LeaveBody(exit) ==
    /\ ioExit' = exit
    /\ closing' = ExitScopes(ioCompressed, exit)
    /\ ioPc' = "unwind"

\* The body of a write or of a whole-file read: to_csv / write_values /
\* pd.read_csv returns or raises.
Work(exit) ==
    /\ IOOnly
    /\ ioPc = "work"
    /\ ioOp \notin StreamOps
    /\ exit \in {"return", "raise"}
    /\ LeaveBody(exit)
    /\ UNCHANGED <<ioOp, ioCompressed, fState, gState, trailer, closeLog, chunks>>

\* The loop of read_csv_stream: the next chunk is yielded, the file is
\* exhausted, or parsing raises.
StreamWork(raises) ==
    /\ IOOnly
    /\ ioPc = "work"
    /\ ioOp \in StreamOps
    /\ IF raises
       THEN LeaveBody("raise") /\ UNCHANGED chunks
       ELSE IF chunks = 0
       THEN LeaveBody("return") /\ UNCHANGED chunks
       ELSE /\ chunks' = chunks - 1
            /\ ioPc' = "yielded"
            /\ UNCHANGED <<ioExit, closing>>
    /\ UNCHANGED <<ioOp, ioCompressed, fState, gState, trailer, closeLog>>

\* The consumer asks for the next chunk.
Take ==
    /\ IOOnly
    /\ ioPc = "yielded"
    /\ ioPc' = "work"
    /\ UNCHANGED <<ioOp, ioCompressed, fState, gState, trailer, closing,
                   closeLog, ioExit, chunks>>

\* The consumer stops taking chunks and lets go of the generator.
Stop ==
    /\ IOOnly
    /\ ioPc = "yielded"
    /\ ioPc' = "abandoned"
    /\ UNCHANGED <<ioOp, ioCompressed, fState, gState, trailer, closing,
                   closeLog, ioExit, chunks>>

\* The abandoned generator is closed: GeneratorExit is raised at its yield.
Finalize ==
    /\ IOOnly
    /\ ioPc = "abandoned"
    /\ LeaveBody("generator_exit")
    /\ UNCHANGED <<ioOp, ioCompressed, fState, gState, trailer, closeLog, chunks>>

\* One with block is left: its handle is closed. Closing the gzip writer
\* writes the trailer to the underlying handle, which must still be open.
CloseStep ==
    /\ IOOnly
    /\ ioPc = "unwind"
    /\ closing # <<>>
    /\ IF Head(closing) = "g"
       THEN /\ gState' = "closed"
            /\ trailer' = IF ioOp \notin WriteOps THEN trailer
                          ELSE IF fState = "open" THEN "written" ELSE "lost"
            /\ UNCHANGED fState
       ELSE /\ fState' = "closed"
            /\ UNCHANGED <<gState, trailer>>
    /\ closeLog' = Append(closeLog, Head(closing))
    /\ closing' = Tail(closing)
    /\ UNCHANGED <<ioOp, ioCompressed, ioPc, ioExit, chunks>>

\* The method has left its with blocks: it returns, or the exception goes on
\* to the caller.
Finish ==
    /\ IOOnly
    /\ ioPc = "unwind"
    /\ closing = <<>>
    /\ ioPc' = "done"
    /\ UNCHANGED <<ioOp, ioCompressed, fState, gState, trailer, closing,
                   closeLog, ioExit, chunks>>

RestIO ==
    /\ ioOp = "idle"
    /\ ioCompressed = FALSE
    /\ ioPc = "idle"
    /\ fState = "none"
    /\ gState = "none"
    /\ trailer = "none"
    /\ closing = <<>>
    /\ closeLog = <<>>
    /\ ioExit = "none"
    /\ chunks = 0

Running ==
    \/ \E ok \in BOOLEAN : OpenF(ok)
    \/ \E ok \in BOOLEAN : WrapG(ok)
    \/ \E exit \in {"return", "raise"} : Work(exit)
    \/ \E raises \in BOOLEAN : StreamWork(raises)
    \/ CloseStep
    \/ Finish

Consumer == Take \/ Stop

NextIO ==
    \/ \E op \in WriteOps \cup ReadOps \cup StreamOps, c \in BOOLEAN,
          n \in 0..MaxChunks : IOCall(op, c, n)
    \/ GenStart
    \/ GenDropUnstarted
    \/ Running
    \/ Consumer
    \/ Finalize

\* ------------------------------------------------------------------------
\* Specifications: one per component, the others at rest
\* ------------------------------------------------------------------------

RestDB ==
    /\ table = <<>>
    /\ keyed = TRUE
    /\ dbLast = NoCall
    /\ dbPrev = [op |-> "init", task_id |-> "t1", value |-> "None", pre |-> 0]

RestS3 ==
    /\ env = Unset
    /\ s3Target = [path |-> Uri(<<"s", "3">>, <<"b">>, <<"k">>), local_s3_path |-> Unset,
              compressed |-> "unset"]
    /\ localFiles = {}
    /\ remoteKeys = {}
    /\ s3Last = [op |-> "init", mode |-> "r",
                 out |-> Outcome("none", FALSE, <<>>, FALSE, {}, "NoResult")]

RestCSV ==
    /\ csvTarget = [compressed |-> FALSE, types |-> <<>>]
    /\ csvInput = <<>>
    /\ stored = [present |-> FALSE, bytes |-> <<>>]
    /\ csvWritten = [op |-> "none", df |-> <<>>]
    /\ csvRead = NoRead

\* The store keyed by task_id, as the schema declares it.
InitDB ==
    /\ table = <<>>
    /\ keyed = TRUE
    /\ dbLast = NoCall
    /\ dbPrev = [op |-> "init", task_id |-> "t1", value |-> "None", pre |-> 0]
    /\ RestS3 /\ RestCSV /\ RestIO

\* A store that may or may not enforce the key.
InitDBAnyStore ==
    /\ table = <<>>
    /\ keyed \in BOOLEAN
    /\ dbLast = NoCall
    /\ dbPrev = [op |-> "init", task_id |-> "t1", value |-> "None", pre |-> 0]
    /\ RestS3 /\ RestCSV /\ RestIO

NextDB ==
    \/ \E t \in TaskIds, v \in Values : Write(t, v)
    \/ \E t \in TaskIds : Touch(t)
    \/ \E t \in TaskIds : Read(t)
    \/ \E t \in TaskIds : Exists(t)
    \/ \E t \in TaskIds : Remove(t)
    \/ \E t \in TaskIds, v \in Values : Upsert(t, v)

SpecDB == InitDB /\ [][NextDB]_vars

SpecDBAnyStore == InitDBAnyStore /\ [][NextDB]_vars

InitS3 == StartS3 /\ RestDB /\ RestCSV /\ RestIO

SpecS3 == InitS3 /\ [][NextS3]_vars

InitCSV == StartCSV /\ RestDB /\ RestS3 /\ RestIO

SpecCSV == InitCSV /\ [][NextCSV]_vars

InitIO == RestIO /\ RestDB /\ RestS3 /\ RestCSV

SpecIO == InitIO /\ [][NextIO]_vars

\* The running method goes on to its end (the code is synchronous); a
\* consumer holding a chunk either asks for the next one or lets go of the
\* generator; a generator let go of is closed by the interpreter.  Nothing
\* makes a caller call, nor a consumer start iterating.
FairSpecIO ==
    /\ SpecIO
    /\ WF_vars(Running)
    /\ WF_vars(Consumer)
    /\ WF_vars(Finalize)

\* ------------------------------------------------------------------------
\* Properties of DBTaskOutputTarget
\* ------------------------------------------------------------------------

ValueOfOnlyRow(t, v) ==
    /\ RowCount(t, table) = 1
    /\ \A i \in DOMAIN table : table[i].task_id = t => table[i].value = v

\* C1: on a task_id with no row exists() returns false; an upsert(v) on a
\* task_id with no row, or with the one row an earlier upsert left, raises
\* nothing and leaves exactly one row for the task_id, holding v; exists()
\* right after it returns true.
C1_UpsertKeepsOneRow ==
    /\ (dbLast.op = "upsert" /\ dbLast.pre <= 1)
          => /\ dbLast.raised = "none"
             /\ dbLast.commit = "ok"
             /\ ValueOfOnlyRow(dbLast.task_id, dbLast.value)
    /\ (dbLast.op = "exists" /\ dbLast.pre = 0)
          => dbLast.raised = "none" /\ dbLast.result = "False"
    /\ (/\ dbLast.op = "exists"
        /\ dbPrev.op = "upsert"
        /\ dbPrev.task_id = dbLast.task_id
        /\ dbPrev.pre <= 1)
          => dbLast.raised = "none" /\ dbLast.result = "True"

\* C1 witness: an upsert on a task_id with no row, then a second upsert of
\* another value on the same task_id, which now has one row, that value.
C1_Witness ==
    /\ dbPrev.op = "upsert" /\ dbPrev.pre = 0
    /\ dbLast.op = "upsert" /\ dbLast.pre = 1
    /\ dbLast.task_id = dbPrev.task_id
    /\ dbLast.value # dbPrev.value
    /\ ValueOfOnlyRow(dbLast.task_id, dbLast.value)

\* C2: whatever write, touch, upsert and remove calls were made from the
\* empty table, the table holds at most one row per task_id.
C2_OneRowPerTask == \A t \in TaskIds : RowCount(t, table) <= 1

\* C2 witness: a write on a task_id that already had its row.
C2_Witness ==
    /\ dbLast.op = "write" /\ dbLast.pre = 1
    /\ RowCount(dbLast.task_id, table) = 1

Mutating == {"write", "touch", "upsert", "remove"}

\* C3: a mutating call that raises has rolled the session back, one that
\* returns has committed it, and none ends with both or with neither.
C3_CommitOrRollback ==
    dbLast.op \in Mutating =>
        /\ dbLast.raised # "none" => dbLast.rollback
        /\ dbLast.raised = "none" => dbLast.commit = "ok"
        /\ ~(dbLast.commit = "ok" /\ dbLast.rollback)
        /\ dbLast.commit = "ok" \/ dbLast.rollback

\* C4: read() returns the stored value exactly when the task_id has one
\* row; with no row or with several it raises, the session is rolled back
\* and not committed; and no read changes the table.
C4_ReadNeedsOneRow ==
    /\ [](dbLast.op = "read" =>
            /\ dbLast.raised = "none" <=> dbLast.pre = 1
            /\ dbLast.pre = 1 =>
                  /\ dbLast.result \in Values
                  /\ ValueOfOnlyRow(dbLast.task_id, dbLast.result)
            /\ dbLast.pre = 0 => dbLast.raised = "NoResultFound"
            /\ dbLast.pre > 1 => dbLast.raised = "MultipleResultsFound"
            /\ dbLast.pre # 1 =>
                  /\ dbLast.rollback
                  /\ dbLast.commit = "none"
                  /\ dbLast.result = "NoResult")
    /\ [][dbLast'.op = "read" => table' = table]_vars

\* C4 witness: a read that raised MultipleResultsFound on a task_id with two
\* rows, rolled back, the two rows still there.
C4_Witness ==
    /\ dbLast.op = "read" /\ dbLast.pre = 2
    /\ dbLast.raised = "MultipleResultsFound" /\ dbLast.rollback
    /\ RowCount(dbLast.task_id, table) = 2

\* ------------------------------------------------------------------------
\* Properties of FireflowerS3Target
\* ------------------------------------------------------------------------

\* What follows the first "://" of a URI: bucket/key.
RECURSIVE AfterScheme(_)
AfterScheme(uri) ==
    IF Len(uri) < 3 THEN <<>>
    ELSE IF SubSeq(uri, 1, 3) = <<":", "/", "/">> THEN SubSeq(uri, 4, Len(uri))
    ELSE AfterScheme(Tail(uri))

\* The file R/bucket/key of a URI scheme://bucket/key under the root R (a
\* root written with a closing "/" names the same directory).
FileUnderRoot(root, uri) ==
    (IF root # <<>> /\ root[Len(root)] = "/"
     THEN SubSeq(root, 1, Len(root) - 1) ELSE root)
    \o <<"/">> \o AfterScheme(uri)

S3Called == s3Last.op = "exists" \/ (s3Last.op = "open" /\ s3Last.mode \in {"r", "w"})

\* C7 as claimed: with LOCAL_S3_PATH set to a root R at construction,
\* exists() and open() on scheme://bucket/key address the local file
\* R/bucket/key and do not invoke the remote client; with it unset they go
\* to the remote client and use no local file.
C7_AsClaimed ==
    S3Called =>
        /\ Truthy(s3Target.local_s3_path) =>
             /\ s3Last.out.localUsed
             /\ s3Last.out.localPath
                  = FileUnderRoot(s3Target.local_s3_path.val, s3Target.path)
             /\ ~s3Last.out.remoteUsed
        /\ ~s3Target.local_s3_path.set =>
             /\ s3Last.out.remoteUsed
             /\ ~s3Last.out.localUsed

HasS3Scheme(uri) == Len(uri) >= Len(S3Prefix) /\ SubSeq(uri, 1, Len(S3Prefix)) = S3Prefix

\* C7 (amended): with LOCAL_S3_PATH set to a root R at construction,
\* exists() and open() use a local file and never the remote client, and for
\* a URI s3://bucket/key that file is R/bucket/key; with LOCAL_S3_PATH unset
\* (or empty) at construction they invoke the remote client, and no local
\* file is read or created.
C7_PathResolution ==
    /\ [](S3Called =>
            IF Truthy(s3Target.local_s3_path)
            THEN /\ s3Last.out.localUsed
                 /\ ~s3Last.out.remoteUsed
                 /\ HasS3Scheme(s3Target.path) =>
                      s3Last.out.localPath
                        = FileUnderRoot(s3Target.local_s3_path.val, s3Target.path)
            ELSE /\ s3Last.out.remoteUsed
                 /\ ~s3Last.out.localUsed)
    /\ [][(s3Last'.op \in {"exists", "open"} /\ ~Truthy(s3Target'.local_s3_path))
            => localFiles' = localFiles]_vars

\* C7 witness: open('w') on s3://b/k of a target constructed under the root
\* /r has created /r/b/k, although LOCAL_S3_PATH has been unset since.
C7_Witness ==
    /\ s3Last.op = "open" /\ s3Last.mode = "w"
    /\ s3Target.path = Uri(<<"s", "3">>, <<"b">>, <<"k">>)
    /\ s3Target.local_s3_path = [set |-> TRUE, val |-> <<"/", "r">>]
    /\ env = Unset
    /\ s3Last.out.localPath = <<"/", "r", "/", "b", "/", "k">>
    /\ s3Last.out.localPath \in localFiles
    /\ ~s3Last.out.remoteUsed

\* C8: open(mode) with a mode other than 'r' and 'w' raises ValueError
\* without using a local file or the remote client, whatever the local root
\* and the compressed flag, and leaves both stores as they were.
C8_InvalidMode ==
    /\ []((s3Last.op = "open" /\ s3Last.mode \notin {"r", "w"}) =>
            /\ s3Last.out.raised = "ValueError"
            /\ ~s3Last.out.localUsed
            /\ ~s3Last.out.remoteUsed)
    /\ [][(s3Last'.op = "open" /\ s3Last'.mode \notin {"r", "w"})
            => (localFiles' = localFiles /\ remoteKeys' = remoteKeys)]_vars

\* C8 witness: open('a') raised ValueError on a target with no local root,
\* where a valid mode goes to the remote client.
C8_Witness ==
    /\ s3Last.op = "open" /\ s3Last.mode = "a"
    /\ ~Truthy(s3Target.local_s3_path)
    /\ s3Target.compressed = "True"
    /\ s3Last.out.raised = "ValueError"

\* ------------------------------------------------------------------------
\* Properties of S3CSVTarget / S3TypedCSVTarget
\* ------------------------------------------------------------------------

\* C5: read_typed_csv after write_typed_csv on the same target gives back
\* the table written, columns in order, compressed or not.
C5_TypedRoundTrip ==
    (csvRead.op = "read_typed_csv" /\ csvWritten.op = "write_typed_csv") =>
        /\ csvRead.raised = "none"
        /\ csvRead.df = csvWritten.df

C9_GzipClosedFirst ==
    (ioOp \in WriteOps /\ ioCompressed) =>
        /\ ~(fState = "closed" /\ gState = "open")
        /\ (ioPc = "done" /\ gState # "none") =>
              /\ closeLog = <<"g", "f">>
              /\ trailer = "written"

\* C9 witness: a compressed write whose serialization raised has ended with
\* the gzip writer closed, then the handle.
C9_Witness ==
    /\ ioOp = "write_typed_csv" /\ ioCompressed
    /\ ioPc = "done" /\ ioExit = "raise"
    /\ closeLog = <<"g", "f">>

====
